---- MODULE Spec2Model ----
(***************************************************************************)
(* Formal model of epub-translator's translation pipeline                  *)
(* (src/epub_translator/translation/translation.py and chunk.py).          *)
(*                                                                         *)
(* Spec      the concurrent pipeline of translate(): the submission of the *)
(*           chunks to a ThreadPoolExecutor, the workers running           *)
(*           _translate_chunk against the shared cache, the completion     *)
(*           stream (as_completed) with its cancel loop, and the ordered   *)
(*           emitter _sort_translated_texts_by_chunk.                      *)
(* SpecHash  match_fragments applied to two chunk ranges: the split of the *)
(*           accumulated texts into head, body and tail, the hash and the  *)
(*           cropping.                                                     *)
(***************************************************************************)
EXTENDS Integers, Sequences, FiniteSets, TLC

(***************************************************************************)
(* Bounds of the model.                                                    *)
(***************************************************************************)
NumChunks == 3          \* chunks of one run (len(chunk_ranges))
max_threads_count == 2  \* worker count W handed to ThreadPoolExecutor
MaxWeight == 1          \* largest token weight of a chunk when the weights are free
NumHashes == 2          \* distinct chunk hashes of one run

\* An optional value: None, or Some(x)
None == << >>
Some(x) == << x >>
Val(m) == m[1]

Chunks == 0 .. (NumChunks - 1)
Hashes == 0 .. (NumHashes - 1)

VARIABLES
  tokens_count,             \* chunk.tokens_count of every chunk (input)
  store,                    \* Store: hash -> cached list, or None
  mpc,                      \* position of the thread that runs translate()
  cursor,                   \* chunks submitted so far / futures visited by the cancel loop
  err,                      \* the exception travelling to the caller, or None
  fstate,                   \* state of each future
  translated_texts,         \* _translate_chunk's local of each running chunk
  result,                   \* future.result() of each finished chunk
  requests,                 \* model requests issued for each chunk
  puts,                     \* store.put calls made for each chunk
  hit,                      \* the chunk's lookup found a cache entry of the right length
  warned,                   \* the chunk's lookup printed the mismatched-lengths warning
  delivered,                \* futures already yielded by as_completed
  arrivals,                 \* chunk indices the emitter has received, in arrival order
  buffer,                   \* emitter: buffer (chunk indices, list order)
  wanna_next_index,         \* emitter: next index to emit
  translated_tokens_count,  \* emitter: running token total
  emitted,                  \* strings yielded to the caller so far
  reported,                 \* numerators passed to report_progress so far
  hin,                      \* chunk.py, splitter.py: the arguments of the function applied
  hout                      \* chunk.py, splitter.py: what the function has yielded

pipeVars == << tokens_count, store, mpc, cursor, err, fstate, translated_texts,
               result, requests, puts, hit, warned, delivered, arrivals, buffer,
               wanna_next_index, translated_tokens_count, emitted, reported >>
hashVars == << hin, hout >>
vars == << pipeVars, hashVars >>

(***************************************************************************)
(* Texts.  A text is a sequence of character codes (its UTF-8 bytes); code  *)
(* 32 is a blank.  The empty string is << >>.                              *)
(***************************************************************************)
Space == 32
EmptyText == << >>

RECURSIVE LStrip(_)
LStrip(t) == IF t # << >> /\ Head(t) = Space THEN LStrip(Tail(t)) ELSE t

RECURSIVE RStrip(_)
RStrip(t) ==
  IF t # << >> /\ t[Len(t)] = Space THEN RStrip(SubSeq(t, 1, Len(t) - 1)) ELSE t

\* str.strip()
Strip(t) == RStrip(LStrip(t))

\* utils.clean_spaces: whitespace normalisation (runs of blanks collapse to
\* one blank, the ends are trimmed)
RECURSIVE Collapse(_)
Collapse(t) ==
  IF Len(t) < 2 THEN t
  ELSE IF t[1] = Space /\ t[2] = Space THEN Collapse(Tail(t))
  ELSE << t[1] >> \o Collapse(Tail(t))

clean_spaces(t) == Strip(Collapse(t))

(***************************************************************************)
(* The chunks of one run, as match_fragments hands them to the executor.   *)
(* Chunk c has index c.  The first chunk has no head and the last one no   *)
(* tail; the body lengths alternate.  Chunks whose indices are congruent   *)
(* modulo NumHashes carry the same hash (the same texts occur again later  *)
(* in the document).                                                       *)
(***************************************************************************)
HeadLen(c) == IF c = 0 THEN 0 ELSE 1
BodyLen(c) == 1 + (c % 2)
TailLen(c) == IF c = NumChunks - 1 THEN 0 ELSE 1
HashOf(c) == c % NumHashes

\* len(source_texts), source_texts = chunk.head + chunk.body + chunk.tail
SourceLen(c) == HeadLen(c) + BodyLen(c) + TailLen(c)

\* every source text of the chunk is empty: a text counts zero tokens exactly
\* when it is the empty string
Blank(c) == tokens_count[c] = 0

\* total_tokens_count = sum(chunk.tokens_count for chunk in chunk_ranges)
RECURSIVE SumTokens(_, _)
SumTokens(tc, n) == IF n = 0 THEN 0 ELSE tc[n - 1] + SumTokens(tc, n - 1)

total_tokens_count == SumTokens(tokens_count, NumChunks)

(***************************************************************************)
(* The model's replies.  The structured reply is a sequence of child       *)
(* elements [id, text]; the model may answer every id, or leave the last   *)
(* one out, or use an id that is out of range.                                *)
(***************************************************************************)
Code(h, p) == 100 * (h + 1) + p

ReplyText(h, p) == << Space, Code(h, p), Space >>

FullReply(h, n) == [ p \in 1 .. n |-> [id |-> Some(p), text |-> Some(ReplyText(h, p))] ]

ReplyKinds == { "full", "partial", "badid" }

ReplyOf(kind, h, n) ==
  CASE kind = "full"    -> FullReply(h, n)
    [] kind = "partial" -> SubSeq(FullReply(h, n), 1, n - 1)
    [] kind = "badid"   -> Append(FullReply(h, n),
                                  [id |-> Some(n + 1), text |-> Some(ReplyText(h, n + 1))])

\* a loop that keeps the first text recorded for an id
RECURSIVE ParseKeepFirst(_, _, _)
ParseKeepFirst(resp_element, i, fragments) ==
  IF i > Len(resp_element) THEN [raised |-> FALSE, fragments |-> fragments]
  ELSE LET fragment_element == resp_element[i]
           id == fragment_element.id
           index == Val(id) - 1
       IN  IF fragment_element.text = None \/ id = None
             THEN ParseKeepFirst(resp_element, i + 1, fragments)
           ELSE IF index < 0 \/ index >= Len(fragments)
             THEN [raised |-> TRUE, fragments |-> << >>]
           ELSE IF fragments[index + 1] # None
             THEN ParseKeepFirst(resp_element, i + 1, fragments)
           ELSE ParseKeepFirst(resp_element, i + 1,
                  [fragments EXCEPT ![index + 1] = Some(Strip(Val(fragment_element.text)))])

\* _parse_translated_response, the loop over the children from child i on;
\* raised is set when the ValueError "invalid fragment id" is raised
RECURSIVE ParseFrom(_, _, _)
ParseFrom(resp_element, i, fragments) ==
  IF i > Len(resp_element) THEN [raised |-> FALSE, fragments |-> fragments]
  ELSE LET fragment_element == resp_element[i]
           id == fragment_element.id
           index == Val(id) - 1
       IN  IF fragment_element.text = None
             THEN ParseFrom(resp_element, i + 1, fragments)
           ELSE IF id = None
             THEN ParseFrom(resp_element, i + 1, fragments)
           ELSE IF index < 0 \/ index >= Len(fragments)
             THEN [raised |-> TRUE, fragments |-> << >>]
           ELSE ParseFrom(resp_element, i + 1,
                  [fragments EXCEPT ![index + 1] = Some(Strip(Val(fragment_element.text)))])

\* _parse_translated_response: [f or "" for f in fragments], unless it raised
_parse_translated_response(resp_element, sources_count) ==
  LET parsed == ParseFrom(resp_element, 1, [ k \in 1 .. sources_count |-> None ])
  IN  IF parsed.raised THEN parsed
      ELSE [raised |-> FALSE,
            fragments |-> [ k \in 1 .. sources_count |->
                            IF parsed.fragments[k] = None THEN EmptyText
                            ELSE Val(parsed.fragments[k]) ]]

(***************************************************************************)
(* _translate_chunk                                                        *)
(***************************************************************************)
\* Store.get and Store.put: a map from hash to list, None where absent
store_get(entries, h) == entries[h]
store_put(entries, h, texts) == [entries EXCEPT ![h] = Some(texts)]

\* a lookup that takes the cached list whatever its length
LookupUnchecked(st, c) == IF st = None THEN None ELSE store_get(Val(st), HashOf(c))

\* a lookup that never finds anything
LookupSkipped(st, c) == None

\* lines 112-119: the cache lookup; None when there is no store, no entry,
\* or an entry whose length differs from len(source_texts)
LookupCache(st, c) ==
  IF st = None THEN None
  ELSE LET cached == store_get(Val(st), HashOf(c))
       IN  IF cached # None /\ SourceLen(c) # Len(Val(cached)) THEN None
           ELSE cached

\* the cache holds, for the chunk's hash, an entry of len(source_texts) texts
CacheHolds(st, c) ==
  /\ st # None
  /\ store_get(Val(st), HashOf(c)) # None
  /\ Len(Val(store_get(Val(st), HashOf(c)))) = SourceLen(c)

\* lines 116-119: the cache holds, for the chunk's hash, an entry whose length
\* differs from len(source_texts)
CacheStale(st, c) ==
  /\ st # None
  /\ store_get(Val(st), HashOf(c)) # None
  /\ Len(Val(store_get(Val(st), HashOf(c)))) # SourceLen(c)

\* lines 151-153: _normalize_user_input finds no line, so no request is made
NoRequestTexts(c) == [ k \in 1 .. SourceLen(c) |-> EmptyText ]

\* lines 122-131 and 182-190: the structured reply parsed and cleaned
FreshTexts(c, resp_element) ==
  LET parsed == _parse_translated_response(resp_element, SourceLen(c))
  IN  IF parsed.raised THEN parsed
      ELSE [raised |-> FALSE,
            fragments |-> [ k \in 1 .. SourceLen(c) |-> clean_spaces(parsed.fragments[k]) ]]

\* lines 132-133: store.put
StorePut(st, h, texts) ==
  IF st = None THEN st ELSE Some(store_put(Val(st), h, texts))

\* a Python slice s[from:to], 0 <= from <= to
PySlice(s, from, to) ==
  LET lo == IF from < Len(s) THEN from ELSE Len(s)
      hi == IF to < Len(s) THEN to ELSE Len(s)
  IN  IF hi <= lo THEN << >> ELSE SubSeq(s, lo + 1, hi)

\* the slice taken from the start of the list: translated_texts[:len(chunk.body)]
SliceFromStart(c, texts) == PySlice(texts, 0, BodyLen(c))

\* lines 135-136: translated_texts[head_length:head_length + len(chunk.body)]
SliceBody(c, texts) == PySlice(texts, HeadLen(c), HeadLen(c) + BodyLen(c))

(***************************************************************************)
(* _sort_translated_texts_by_chunk                                         *)
(***************************************************************************)
\* buffer.sort(key=lambda e: e[0].index): a stable sort by chunk index
RECURSIVE InsertByIndex(_, _)
InsertByIndex(sorted, e) ==
  IF sorted = << >> THEN << e >>
  ELSE IF Head(sorted) <= e THEN << Head(sorted) >> \o InsertByIndex(Tail(sorted), e)
  ELSE << e >> \o sorted

\* the buffer left in arrival order
SortSkipped(buf) == buf

RECURSIVE SortByIndex(_)
SortByIndex(buf) ==
  IF buf = << >> THEN << >>
  ELSE InsertByIndex(SortByIndex(SubSeq(buf, 1, Len(buf) - 1)), buf[Len(buf)])

\* a scan that does not stop at a gap: every buffered entry is flushed
RECURSIVE ScanAll(_, _, _, _, _)
ScanAll(buf, i, next, count, chunk) ==
  IF i > Len(buf) THEN [next |-> next, count |-> count, chunk |-> chunk]
  ELSE ScanAll(buf, i + 1, IF buf[i] = next THEN next + 1 ELSE next, count + 1, buf[i])

\* a scan that stops after the entry of the chunk that arrived
ScanFirst(buf, i, next, count, chunk) ==
  [next |-> next + 1, count |-> 1, chunk |-> buf[1]]

\* lines 89-94: the scan of the sorted buffer from entry i on.  count is
\* len(to_clear), next the cursor, chunk the loop variable as the loop leaves it
RECURSIVE ScanBuffer(_, _, _, _, _)
ScanBuffer(buf, i, next, count, chunk) ==
  IF i > Len(buf) THEN [next |-> next, count |-> count, chunk |-> chunk]
  ELSE IF buf[i] > next THEN [next |-> next, count |-> count, chunk |-> buf[i]]
  ELSE ScanBuffer(buf, i + 1, IF buf[i] = next THEN next + 1 ELSE next, count + 1, buf[i])

\* lines 96-99: the texts of the first count entries of the sorted buffer
RECURSIVE ToClearTexts(_, _, _)
ToClearTexts(buf, count, res) ==
  IF count = 0 THEN << >>
  ELSE ToClearTexts(buf, count - 1, res) \o Val(res[buf[count]])

\* lines 84-101: one round of the emitter's loop for the arrival of chunk c,
\* up to the update of translated_tokens_count
EmitterRound(buf, next, total, c, res, tc) ==
  LET appended == Append(buf, c)
  IN  IF next = c
      THEN LET sorted == SortByIndex(appended)
               scan == ScanBuffer(sorted, 1, next, 0, c)
           IN  [buffer |-> IF scan.count > 0
                           THEN SubSeq(sorted, scan.count + 1, Len(sorted))
                           ELSE sorted,
                next |-> scan.next,
                yielded |-> ToClearTexts(sorted, scan.count, res),
                total |-> total + tc[scan.chunk]]
      ELSE [buffer |-> appended, next |-> next, yielded |-> << >>,
            total |-> total + tc[c]]

(***************************************************************************)
(* The worker pool and the futures (concurrent.futures)                    *)
(***************************************************************************)
Running(fs) == { c \in Chunks : fs[c] = "running" }

\* a pool that starts a thread for every work item
WorkerAlwaysFree(fs) == TRUE

\* ThreadPoolExecutor(max_workers=max_threads_count): a work item is taken
\* only by an idle worker thread
WorkerFree(fs) == Cardinality(Running(fs)) < max_threads_count

\* the work queue is first in, first out: the item taken is the oldest one
\* that is still pending
NextInQueue(fs, c) == fs[c] = "pending" /\ \A d \in Chunks : d < c => fs[d] # "pending"

\* Future.done()
Done(state) == state \in { "finished", "failed", "cancelled" }

\* a cancel that leaves the future in the queue
CancelIgnored(state) == state

\* Future.cancel(): only a future that has not started is cancelled
CancelFuture(state) == IF state = "pending" THEN "cancelled" ELSE state

\* shutdown(wait=False): the with block is left at once
PoolNotAwaited(fs) == TRUE

\* Executor.__exit__ -> shutdown(wait=True): returns when every work item
\* has been run or found cancelled
PoolSettled(fs) == \A c \in Chunks : fs[c] \notin { "pending", "running" }

(***************************************************************************)
(* Initial states                                                          *)
(***************************************************************************)
\* the pipeline's token weights: every chunk blank (no tokens at all), or
\* chunk c counting c + 1 tokens
TokenAssignments == { [ c \in Chunks |-> k * (c + 1) ] : k \in 0 .. 1 }

\* lengths of the entries an earlier run may have left in the cache
CachedLens == { 2, 4 }

CachedText(h, p) == << 1000 + Code(h, p) >>

CachedEntry(h, n) == [ p \in 1 .. n |-> CachedText(h, p) ]

EmptyStore == [ h \in Hashes |-> None ]

\* no cache_path, an empty cache, or a cache that holds one entry
InitialStores ==
  { None, Some(EmptyStore) } \cup
  { Some([EmptyStore EXCEPT ![h] = Some(CachedEntry(h, n))]) : h \in Hashes, n \in CachedLens }

HashIdle == hin = << >> /\ hout = << >>

Init ==
  /\ tokens_count \in TokenAssignments
  /\ store \in InitialStores
  /\ mpc = "submit"
  /\ cursor = 0
  /\ err = "none"
  /\ fstate = [ c \in Chunks |-> "new" ]
  /\ translated_texts = [ c \in Chunks |-> None ]
  /\ result = [ c \in Chunks |-> None ]
  /\ requests = [ c \in Chunks |-> 0 ]
  /\ puts = [ c \in Chunks |-> 0 ]
  /\ hit = [ c \in Chunks |-> FALSE ]
  /\ warned = [ c \in Chunks |-> FALSE ]
  /\ delivered = {}
  /\ arrivals = << >>
  /\ buffer = << >>
  /\ wanna_next_index = 0
  /\ translated_tokens_count = 0
  /\ emitted = << >>
  /\ reported = << >>
  /\ HashIdle

emitterVars == << delivered, arrivals, buffer, wanna_next_index, translated_tokens_count,
                  emitted, reported >>
workerVars == << translated_texts, result, requests, puts, hit, warned >>

(***************************************************************************)
(* The thread that runs translate()                                        *)
(***************************************************************************)
\* lines 42-56: executor.submit of the next chunk
Submit ==
  /\ mpc = "submit"
  /\ fstate' = [fstate EXCEPT ![cursor] = "pending"]
  /\ cursor' = cursor + 1
  /\ mpc' = IF cursor + 1 = NumChunks THEN "consume" ELSE "submit"
  /\ UNCHANGED << tokens_count, store, err, workerVars, emitterVars, hashVars >>

\* lines 59-60 and 83-102: as_completed yields the finished future of chunk
\* c and the emitter runs one round of its loop for it
Arrive(c) ==
  /\ mpc = "consume"
  /\ c \notin delivered
  /\ fstate[c] = "finished"
  /\ LET round == EmitterRound(buffer, wanna_next_index, translated_tokens_count,
                               c, result, tokens_count)
     IN  /\ delivered' = delivered \cup { c }
         /\ arrivals' = Append(arrivals, c)
         /\ buffer' = round.buffer
         /\ wanna_next_index' = round.next
         /\ emitted' = emitted \o round.yielded
         /\ translated_tokens_count' = round.total
         /\ IF total_tokens_count = 0
            THEN \* float(...) / 0 raises ZeroDivisionError
                 /\ reported' = reported
                 /\ err' = "ZeroDivisionError"
                 /\ mpc' = "exit"
            ELSE /\ reported' = Append(reported, round.total)
                 /\ UNCHANGED << err, mpc >>
  /\ UNCHANGED << tokens_count, store, cursor, fstate, workerVars, hashVars >>

\* the failure is swallowed and the loop goes on to the next future
RaiseSwallowed(c) ==
  /\ mpc = "consume"
  /\ c \notin delivered
  /\ fstate[c] = "failed"
  /\ delivered' = delivered \cup { c }
  /\ UNCHANGED << tokens_count, store, mpc, cursor, err, fstate, workerVars, arrivals,
                  buffer, wanna_next_index, translated_tokens_count, emitted, reported,
                  hashVars >>

\* the failure is kept for the end of the stream and the loop goes on
RaiseDeferred(c) ==
  /\ mpc = "consume"
  /\ c \notin delivered
  /\ fstate[c] = "failed"
  /\ delivered' = delivered \cup { c }
  /\ err' = "chunk"
  /\ UNCHANGED << tokens_count, store, mpc, cursor, fstate, workerVars, arrivals,
                  buffer, wanna_next_index, translated_tokens_count, emitted, reported,
                  hashVars >>

\* lines 60-61: future.result() of the failed future of chunk c raises
Raise(c) ==
  /\ mpc = "consume"
  /\ c \notin delivered
  /\ fstate[c] = "failed"
  /\ delivered' = delivered \cup { c }
  /\ err' = "chunk"
  /\ mpc' = "cancel"
  /\ cursor' = 0
  /\ UNCHANGED << tokens_count, store, fstate, workerVars, arrivals, buffer, wanna_next_index,
                  translated_tokens_count, emitted, reported, hashVars >>

\* lines 62-65: the cancel loop visits the next future, and raises after the last
CancelStep ==
  /\ mpc = "cancel"
  /\ fstate' = [fstate EXCEPT ![cursor] =
                  IF ~Done(fstate[cursor]) THEN CancelFuture(fstate[cursor])
                  ELSE fstate[cursor]]
  /\ cursor' = cursor + 1
  /\ mpc' = IF cursor + 1 = NumChunks THEN "exit" ELSE "cancel"
  /\ UNCHANGED << tokens_count, store, err, workerVars, emitterVars, hashVars >>

\* line 83: the completion stream is exhausted, the emitter's loop ends
EndOfStream ==
  /\ mpc = "consume"
  /\ delivered = Chunks
  /\ mpc' = "exit"
  /\ UNCHANGED << tokens_count, store, cursor, err, fstate, workerVars, emitterVars,
                  hashVars >>

\* line 41: the with block is left, normally or by the exception
ExitPool ==
  /\ mpc = "exit"
  /\ PoolSettled(fstate)
  /\ mpc' = IF err = "none" THEN "returned" ELSE "raised"
  /\ UNCHANGED << tokens_count, store, cursor, err, fstate, workerVars, emitterVars,
                  hashVars >>

(***************************************************************************)
(* The worker threads: _translate_chunk                                    *)
(***************************************************************************)
\* a worker takes the work item of chunk c and looks its hash up (lines 112-119)
StartChunk(c) ==
  /\ NextInQueue(fstate, c)
  /\ WorkerFree(fstate)
  /\ fstate' = [fstate EXCEPT ![c] = "running"]
  /\ translated_texts' = [translated_texts EXCEPT ![c] = LookupCache(store, c)]
  /\ hit' = [hit EXCEPT ![c] = CacheHolds(store, c)]
  /\ warned' = [warned EXCEPT ![c] = CacheStale(store, c)]
  /\ UNCHANGED << tokens_count, store, mpc, cursor, err, result, requests, puts,
                  emitterVars, hashVars >>

\* lines 121, 135-138: the cached list is sliced and returned
ReturnCached(c) ==
  /\ fstate[c] = "running"
  /\ translated_texts[c] # None
  /\ result' = [result EXCEPT ![c] = Some(SliceBody(c, Val(translated_texts[c])))]
  /\ fstate' = [fstate EXCEPT ![c] = "finished"]
  /\ UNCHANGED << tokens_count, store, mpc, cursor, err, translated_texts, requests,
                  puts, hit, warned, emitterVars, hashVars >>

\* lines 121-138 with new_texts as the fresh translation
StoreAndReturn(c, new_texts) ==
  /\ translated_texts' = [translated_texts EXCEPT ![c] = Some(new_texts)]
  /\ store' = StorePut(store, HashOf(c), new_texts)
  /\ puts' = [puts EXCEPT ![c] = IF store = None THEN 0 ELSE 1]
  /\ result' = [result EXCEPT ![c] = Some(SliceBody(c, new_texts))]
  /\ fstate' = [fstate EXCEPT ![c] = "finished"]

\* lines 151-153: no source text has content, nothing is requested
TranslateBlank(c) ==
  /\ fstate[c] = "running"
  /\ translated_texts[c] = None
  /\ Blank(c)
  /\ StoreAndReturn(c, NoRequestTexts(c))
  /\ UNCHANGED << tokens_count, mpc, cursor, err, requests, hit, warned, emitterVars,
                  hashVars >>

\* lines 159-190: both requests are answered; the structured reply is parsed,
\* which raises on an id out of range
TranslateFresh(c, kind) ==
  /\ fstate[c] = "running"
  /\ translated_texts[c] = None
  /\ ~Blank(c)
  /\ requests' = [requests EXCEPT ![c] = 2]
  /\ LET fresh == FreshTexts(c, ReplyOf(kind, HashOf(c), SourceLen(c)))
     IN  IF fresh.raised
         THEN /\ fstate' = [fstate EXCEPT ![c] = "failed"]
              /\ UNCHANGED << store, translated_texts, result, puts >>
         ELSE StoreAndReturn(c, fresh.fragments)
  /\ UNCHANGED << tokens_count, mpc, cursor, err, hit, warned, emitterVars, hashVars >>

\* a worker that puts an empty list for the chunk before its request raises
RequestFailsAfterPut(c, n) ==
  /\ fstate[c] = "running"
  /\ translated_texts[c] = None
  /\ ~Blank(c)
  /\ requests' = [requests EXCEPT ![c] = n]
  /\ store' = StorePut(store, HashOf(c), NoRequestTexts(c))
  /\ fstate' = [fstate EXCEPT ![c] = "failed"]
  /\ UNCHANGED << tokens_count, mpc, cursor, err, translated_texts, result,
                  puts, hit, warned, emitterVars, hashVars >>

\* lines 159-169, 182-190: request number n of the chunk raises (no fenced
\* TXT block, no XML, or the transport gave up)
RequestFails(c, n) ==
  /\ fstate[c] = "running"
  /\ translated_texts[c] = None
  /\ ~Blank(c)
  /\ requests' = [requests EXCEPT ![c] = n]
  /\ fstate' = [fstate EXCEPT ![c] = "failed"]
  /\ UNCHANGED << tokens_count, store, mpc, cursor, err, translated_texts, result,
                  puts, hit, warned, emitterVars, hashVars >>

Next ==
  \/ Submit
  \/ \E c \in Chunks : Arrive(c)
  \/ \E c \in Chunks : Raise(c)
  \/ CancelStep
  \/ EndOfStream
  \/ ExitPool
  \/ \E c \in Chunks : StartChunk(c)
  \/ \E c \in Chunks : ReturnCached(c)
  \/ \E c \in Chunks : TranslateBlank(c)
  \/ \E c \in Chunks, kind \in ReplyKinds : TranslateFresh(c, kind)
  \/ \E c \in Chunks, n \in 1 .. 2 : RequestFails(c, n)

Spec == Init /\ [][Next]_vars

(***************************************************************************)
(* Properties of the pipeline                                              *)
(***************************************************************************)
\* the translated lists of chunks 0 .. n-1, concatenated in index order
RECURSIVE ConcatResults(_, _)
ConcatResults(res, n) ==
  IF n = 0 THEN << >> ELSE ConcatResults(res, n - 1) \o Val(res[n - 1])

AllFinished == \A c \in Chunks : fstate[c] = "finished"

Terminated == mpc \in { "returned", "raised" }

\* C1: whatever the order in which the completions of chunks 0 .. n-1 arrive,
\* once all of them have arrived the emitter has emitted the concatenation of
\* the chunks' translated lists in ascending chunk index.
C1_OrderedOutput ==
  Len(arrivals) = NumChunks => emitted = ConcatResults(result, NumChunks)

\* C1 witness: all chunks have arrived, the last chunk first and chunk 0 before
\* chunk 1, and the output is in index order.
C1_Witness ==
  /\ Len(arrivals) = NumChunks
  /\ arrivals[1] = NumChunks - 1
  /\ arrivals[2] = 0
  /\ emitted = ConcatResults(result, NumChunks)
  /\ emitted # << >>

\* C2: when every chunk request has succeeded and the stream was consumed to
\* its end, the run has terminated normally, every fragment was emitted once,
\* the buffer is empty and the cursor equals the number of chunks.
C2_NormalTermination ==
  (Terminated /\ AllFinished) =>
    /\ mpc = "returned"
    /\ emitted = ConcatResults(result, NumChunks)
    /\ buffer = << >>
    /\ wanna_next_index = NumChunks

\* C3: a run in which the request of some chunk raised never terminates
\* normally: when translate() returns, no chunk has failed.
C3_FailsClosed ==
  mpc = "returned" => \A c \in Chunks : fstate[c] # "failed"

\* C3 witness: a run with a failed chunk and a finished one has terminated by
\* raising the chunk's error.
C3_Witness ==
  /\ mpc = "raised"
  /\ err = "chunk"
  /\ \E c \in Chunks : fstate[c] = "failed"
  /\ \E c \in Chunks : fstate[c] = "finished" /\ c \in delivered

Starts(c) == fstate[c] = "pending" /\ fstate'[c] = "running"

\* C4 as stated: no chunk begins its cache lookup after the request of
\* another chunk has failed.
C4_NoStartAfterFailure ==
  [][\A c \in Chunks : Starts(c) => \A d \in Chunks : fstate[d] # "failed"]_vars

\* C4 amended: once the completion stream has raised a chunk's failure and its
\* cancel loop has visited every future, no chunk begins its cache lookup.
C4_NoStartAfterCancelLoop ==
  [][\A c \in Chunks : Starts(c) => ~(err = "chunk" /\ mpc \in { "exit", "raised" })]_vars

\* C4 witness: the cancel loop has finished and has cancelled a chunk that had
\* not started, while another chunk is still running.
C4_Witness ==
  /\ err = "chunk"
  /\ mpc = "exit"
  /\ \E c \in Chunks : fstate[c] = "cancelled"
  /\ \E c \in Chunks : fstate[c] = "running"

\* C5: when the caller observes the error of a failed run, no chunk is
\* running in the pool: every chunk is finished, failed or cancelled.
C5_ErrorAfterSettling ==
  mpc = "raised" => \A c \in Chunks : fstate[c] \in { "finished", "failed", "cancelled" }

\* C5 witness: the error of a chunk has reached the caller; one chunk was
\* cancelled and one completed without ever being delivered.
C5_Witness ==
  /\ mpc = "raised"
  /\ err = "chunk"
  /\ \E c \in Chunks : fstate[c] = "cancelled"
  /\ \E c \in Chunks : fstate[c] = "finished" /\ c \notin delivered

\* C6: once the completion stream has raised a chunk's failure, nothing more
\* is emitted.
C6_NoEmissionAfterFailure ==
  [][err = "chunk" => emitted' = emitted]_vars

\* C6 witness: the failure was raised while a completed chunk was held in the
\* buffer, another chunk was cancelled and a third had completed undelivered.
C6_Witness ==
  /\ mpc = "raised"
  /\ err = "chunk"
  /\ buffer # << >>
  /\ \E c \in Chunks : fstate[c] \in { "cancelled", "finished" } /\ c \notin delivered

\* C7: at most max_threads_count chunks are in flight at any moment.
C7_InFlightBound ==
  Cardinality({ c \in Chunks : fstate[c] = "running" }) <= max_threads_count

\* C7 witness: max_threads_count chunks are in flight and a submitted chunk
\* is waiting in the queue.
C7_Witness ==
  /\ Cardinality({ c \in Chunks : fstate[c] = "running" }) = max_threads_count
  /\ \E c \in Chunks : fstate[c] = "pending"

\* the texts position p of the list of hash h can hold: the translation the
\* model's reply carries for id p, the text an earlier run cached there, or
\* the empty string
RecordedAt(h, p) == { Strip(ReplyText(h, p)), CachedText(h, p), EmptyText }

\* C9: the list a chunk returns has len(chunk.body) elements, and element j
\* is the translation recorded for position len(chunk.head) + j of the
\* source texts, for a cache hit and for a fresh translation alike.
C9_BodyAligned ==
  \A c \in Chunks :
    fstate[c] = "finished" =>
      /\ Len(Val(result[c])) = BodyLen(c)
      /\ \A j \in 1 .. BodyLen(c) :
           /\ Val(result[c])[j] = Val(translated_texts[c])[HeadLen(c) + j]
           /\ Val(result[c])[j] \in RecordedAt(HashOf(c), HeadLen(c) + j)
           /\ (~hit[c] /\ requests[c] = 2 /\ HeadLen(c) + j < SourceLen(c))
                => Val(result[c])[j] = Strip(ReplyText(HashOf(c), HeadLen(c) + j))

\* C9 witness: a chunk with a head has returned from a cache hit and another
\* chunk with a head and a tail has returned a fresh translation.
C9_Witness ==
  \E c, d \in Chunks :
    /\ fstate[c] = "finished" /\ hit[c] /\ HeadLen(c) > 0
    /\ fstate[d] = "finished" /\ ~hit[d] /\ requests[d] = 2
    /\ HeadLen(d) > 0 /\ TailLen(d) > 0
    /\ Val(result[d])[1] # EmptyText

\* C10: a chunk whose lookup found an entry of the right length issues no
\* model request and writes nothing to the cache.
C10_HitIsSilent ==
  \A c \in Chunks : hit[c] => requests[c] = 0 /\ puts[c] = 0

\* C10 witness: a chunk has returned from a cache hit.
C10_Witness ==
  \E c \in Chunks : hit[c] /\ fstate[c] = "finished" /\ requests[c] = 0 /\ puts[c] = 0

Returns(c) == fstate[c] = "running" /\ fstate'[c] = "finished"

\* C11: a cached entry whose length differs from len(source_texts) is treated
\* as absent and is never fatal: the lookup leaves translated_texts None, the
\* chunk fails only through a request it made, and at the step at which
\* _translate_chunk returns, one store.put has replaced the entry of the
\* chunk's hash by the fresh list of len(source_texts) texts.
C11_StaleEntryReplaced ==
  [][\A c \in Chunks :
       /\ (Starts(c) /\ CacheStale(store, c)) => translated_texts'[c] = None
       /\ (warned[c] /\ fstate'[c] = "failed") => requests'[c] > 0
       /\ (warned[c] /\ Returns(c)) =>
            /\ puts'[c] = 1
            /\ store_get(Val(store'), HashOf(c)) = translated_texts'[c]
            /\ Len(Val(translated_texts'[c])) = SourceLen(c)]_vars

\* C11 witness: a chunk whose lookup met an entry of another length has
\* returned a fresh translation, and the cache holds its list.
C11_Witness ==
  \E c \in Chunks :
    /\ warned[c]
    /\ fstate[c] = "finished"
    /\ requests[c] = 2
    /\ puts[c] = 1
    /\ store_get(Val(store), HashOf(c)) = translated_texts[c]
    /\ Len(Val(translated_texts[c])) = SourceLen(c)
    /\ Val(result[c]) # << >>

\* C17: at every moment of every run, failing runs included, what has been
\* emitted is the concatenation, in ascending index order, of the translated
\* lists of the chunks below the cursor, all of which have arrived: nothing
\* of chunk k is emitted before everything of chunks 0 .. k-1.
C17_EmittedIsOrderedPrefix ==
  /\ \A c \in Chunks : c < wanna_next_index => c \in delivered /\ result[c] # None
  /\ emitted = ConcatResults(result, wanna_next_index)

\* C17 witness: a failed run that had emitted chunk 0 and was holding a later
\* chunk in the buffer when the failure of the chunk between them was raised.
C17_Witness ==
  /\ mpc = "raised"
  /\ err = "chunk"
  /\ wanna_next_index = 1
  /\ fstate[1] = "failed"
  /\ buffer = << 2 >>
  /\ emitted # << >>
  /\ emitted = Val(result[0])

\* the chunks held in the buffer
Buffered == { buffer[i] : i \in 1 .. Len(buffer) }

\* the number of fragments of the chunks 0 .. n-1
RECURSIVE FragmentsBelow(_, _)
FragmentsBelow(res, n) ==
  IF n = 0 THEN 0 ELSE FragmentsBelow(res, n - 1) + Len(Val(res[n - 1]))

\* C19: after each arrival has been processed, every chunk held in the
\* buffer has an index greater than the cursor, every chunk that has arrived
\* is either held in the buffer or below the cursor, and the chunks below
\* the cursor have been emitted once each.
C19_BufferAboveCursor ==
  /\ \A i \in 1 .. Len(buffer) : buffer[i] > wanna_next_index
  /\ Cardinality(Buffered) = Len(buffer)
  /\ { arrivals[k] : k \in 1 .. Len(arrivals) } =
       Buffered \cup { c \in Chunks : c < wanna_next_index }
  /\ Len(emitted) = FragmentsBelow(result, wanna_next_index)

\* C19 witness: the arrival of chunk 0 was flushed while a later chunk, which
\* had arrived before it, stays in the buffer behind a gap.
C19_Witness ==
  /\ Len(arrivals) = 2
  /\ arrivals[2] = 0
  /\ wanna_next_index = 1
  /\ buffer = << 2 >>
  /\ Len(emitted) = BodyLen(0)

Fails(c) == fstate[c] = "running" /\ fstate'[c] = "failed"

\* C26: when the translation protocol of a chunk fails (a request raises or
\* the reply cannot be parsed), _translate_chunk writes nothing to the
\* cache: the step that fails leaves the cache as it was, and the chunk has
\* made no store.put, whatever the other workers do meanwhile.
C26_FailureWritesNothing ==
  [][\A c \in Chunks :
       /\ Fails(c) => store' = store
       /\ fstate'[c] = "failed" => puts'[c] = 0]_vars

\* C26 witness: with a cache in use, the reply of a chunk could not be
\* parsed and the cache has no entry for its hash, while another worker has
\* put the translation of a chunk with another hash.
C26_Witness ==
  \E c, d \in Chunks :
    /\ store # None
    /\ fstate[c] = "failed"
    /\ requests[c] = 2
    /\ store_get(Val(store), HashOf(c)) = None
    /\ HashOf(d) # HashOf(c)
    /\ fstate[d] = "finished"
    /\ puts[d] = 1
    /\ store_get(Val(store), HashOf(d)) = translated_texts[d]

(***************************************************************************)
(* SpecEmit: the emitter alone.  Every chunk has completed before the      *)
(* completion stream is read, so as_completed may deliver the futures in   *)
(* any order; the token weights of the chunks are free.                    *)
(***************************************************************************)
FreeWeights == [ Chunks -> 0 .. MaxWeight ]

\* the list _translate_chunk builds for chunk c when the model answers every id
CompletedTexts(tc, c) ==
  IF tc[c] = 0 THEN NoRequestTexts(c)
  ELSE FreshTexts(c, ReplyOf("full", HashOf(c), SourceLen(c))).fragments

EmitInit ==
  /\ tokens_count \in FreeWeights
  /\ store = None
  /\ mpc = "consume"
  /\ cursor = NumChunks
  /\ err = "none"
  /\ fstate = [ c \in Chunks |-> "finished" ]
  /\ translated_texts = [ c \in Chunks |-> Some(CompletedTexts(tokens_count, c)) ]
  /\ result = [ c \in Chunks |-> Some(SliceBody(c, CompletedTexts(tokens_count, c))) ]
  /\ requests = [ c \in Chunks |-> IF tokens_count[c] = 0 THEN 0 ELSE 2 ]
  /\ puts = [ c \in Chunks |-> 0 ]
  /\ hit = [ c \in Chunks |-> FALSE ]
  /\ warned = [ c \in Chunks |-> FALSE ]
  /\ delivered = {}
  /\ arrivals = << >>
  /\ buffer = << >>
  /\ wanna_next_index = 0
  /\ translated_tokens_count = 0
  /\ emitted = << >>
  /\ reported = << >>
  /\ HashIdle

EmitNext ==
  \/ \E c \in Chunks : Arrive(c)
  \/ EndOfStream
  \/ ExitPool

SpecEmit == EmitInit /\ [][EmitNext]_vars

\* the token weights of the first k chunks that arrived, added up
RECURSIVE ArrivedTokens(_, _, _)
ArrivedTokens(tc, arr, k) ==
  IF k = 0 THEN 0 ELSE ArrivedTokens(tc, arr, k - 1) + tc[arr[k]]

\* C12: in a run where all chunks complete, the progress value reported at
\* the arrival of the last chunk is 1.0: its numerator is total_tokens_count.
C12_FinalProgressIsOne ==
  (Len(arrivals) = NumChunks /\ total_tokens_count > 0) =>
    /\ Len(reported) = NumChunks
    /\ reported[NumChunks] = total_tokens_count

\* C13: every value passed to the progress callback lies in [0.0, 1.0]: the
\* accumulated token count never exceeds total_tokens_count.
C13_ProgressInUnitInterval ==
  total_tokens_count > 0 =>
    \A k \in 1 .. Len(reported) : 0 <= reported[k] /\ reported[k] <= total_tokens_count

\* C14: the values passed to the progress callback never decrease, and the
\* callback has been invoked once for every chunk that has arrived.
C14_MonotoneAndCalled ==
  /\ \A k \in 1 .. Len(reported) : \A l \in k .. Len(reported) : reported[k] <= reported[l]
  /\ Len(reported) = Len(arrivals)

\* the part of C14 that holds: with a positive total the values never
\* decrease and every arrival has made its call
MonotoneWhenCounted ==
  total_tokens_count > 0 =>
    /\ \A k \in 1 .. Len(reported) : \A l \in k .. Len(reported) : reported[k] <= reported[l]
    /\ Len(reported) = Len(arrivals)

\* C18: after the k-th arrival one progress call has been made for it, with
\* the token weights of the k chunks that have arrived as its numerator,
\* whether or not the arrival flushed the buffer.
C18_ProgressIsArrivedSum ==
  total_tokens_count > 0 =>
    /\ Len(reported) = Len(arrivals)
    /\ \A k \in 1 .. Len(reported) : reported[k] = ArrivedTokens(tokens_count, arrivals, k)

(***************************************************************************)
(* chunk.py: match_fragments                                               *)
(***************************************************************************)
MaxFrags == 2    \* fragments of the stream handed to match_fragments
MaxRemain == 2   \* largest head_remain_tokens / tail_remain_tokens

\* the byte Python writes for b"\x00"
NulByte == 0

\* llm.encode_tokens / llm.decode_tokens: one token per character
encode_tokens(text) == [ i \in 1 .. Len(text) |-> 2 * text[i] + 1 ]
decode_tokens(tokens) == [ i \in 1 .. Len(tokens) |-> (tokens[i] - 1) \div 2 ]

Reverse(s) == [ i \in 1 .. Len(s) |-> s[Len(s) + 1 - i] ]

\* a head slice taken from the wrong end: tokens[:n]
LastTokensFromStart(tokens, n) ==
  IF n >= Len(tokens) THEN tokens ELSE SubSeq(tokens, 1, n)

\* tokens[-n:] for 0 <= n: Python reads -0 as 0, so n = 0 keeps every token
LastTokens(tokens, n) ==
  IF n = 0 \/ n >= Len(tokens) THEN tokens
  ELSE SubSeq(tokens, Len(tokens) - n + 1, Len(tokens))

\* tokens[:n]
FirstTokens(tokens, n) ==
  IF n >= Len(tokens) THEN tokens ELSE SubSeq(tokens, 1, n)

\* lines 105-115: the loop over the token lists from list i on
RECURSIVE CropLoop(_, _, _, _, _)
CropLoop(tokens_list, i, crop_left, remain_tokens_count, remain_texts) ==
  IF i > Len(tokens_list) THEN remain_texts
  ELSE LET tokens == tokens_list[i]
           count == Len(tokens)
       IN  IF remain_tokens_count >= count
           THEN IF remain_tokens_count - count = 0
                THEN Append(remain_texts, decode_tokens(tokens))
                ELSE CropLoop(tokens_list, i + 1, crop_left, remain_tokens_count - count,
                              Append(remain_texts, decode_tokens(tokens)))
           ELSE Append(remain_texts,
                       decode_tokens(IF crop_left
                                     THEN LastTokens(tokens, remain_tokens_count)
                                     ELSE FirstTokens(tokens, remain_tokens_count)))

\* _crop_extra_texts
_crop_extra_texts(texts, crop_left, remain_tokens_count) ==
  LET tokens_list == [ i \in 1 .. Len(texts) |-> encode_tokens(texts[i]) ]
      kept == CropLoop(IF crop_left THEN Reverse(tokens_list) ELSE tokens_list,
                       1, crop_left, remain_tokens_count, << >>)
  IN  IF crop_left THEN Reverse(kept) ELSE kept

\* lines 95-98: the bytes fed to the digest for a list of texts
RECURSIVE TextsBytes(_)
TextsBytes(texts) ==
  IF texts = << >> THEN << >>
  ELSE << NulByte >> \o Head(texts) \o TextsBytes(Tail(texts))

\* _hash_texts_list: sha512 is taken to be collision free, so the digest is
\* represented by the bytes it was computed from
_hash_texts_list(target_language, head, body, tail) ==
  << target_language >> \o TextsBytes(head) \o TextsBytes(body) \o TextsBytes(tail)

\* ChunkRange.match
RangeMatch(range, index) ==
  range.head_index <= index /\ index < range.head_index + range.fragments_count

\* at most one range joins the list at a fragment
TakeOneRange(ranges, k, index, matched) ==
  IF k > Len(ranges) \/ ~RangeMatch(ranges[k], index)
  THEN [k |-> k, matched |-> matched]
  ELSE [k |-> k + 1, matched |-> Append(matched, [range |-> ranges[k], texts |-> << >>])]

\* lines 70-78: the ranges that start matching at this index join the list
RECURSIVE TakeRanges(_, _, _, _)
TakeRanges(ranges, k, index, matched) ==
  IF k > Len(ranges) \/ ~RangeMatch(ranges[k], index)
  THEN [k |-> k, matched |-> matched]
  ELSE TakeRanges(ranges, k + 1, index, Append(matched, [range |-> ranges[k], texts |-> << >>]))

\* lines 80-88: matched ranges take the fragment's text, the others are yielded
RECURSIVE Feed(_, _, _, _, _)
Feed(matched, j, index, text, acc) ==
  IF j > Len(matched) THEN acc
  ELSE IF RangeMatch(matched[j].range, index)
  THEN Feed(matched, j + 1, index, text,
            [acc EXCEPT !.kept = Append(@, [matched[j] EXCEPT !.texts = Append(@, text)])])
  ELSE Feed(matched, j + 1, index, text, [acc EXCEPT !.yielded = Append(@, matched[j])])

\* _match_range_and_texts from fragment number index on (index counts from 0)
RECURSIVE MatchLoop(_, _, _, _, _, _)
MatchLoop(ranges, fragments, index, k, matched, yielded) ==
  IF index >= Len(fragments) THEN yielded \o matched
  ELSE LET taken == TakeRanges(ranges, k, index, matched)
           fed == Feed(taken.matched, 1, index, fragments[index + 1],
                       [kept |-> << >>, yielded |-> yielded])
       IN  MatchLoop(ranges, fragments, index + 1, taken.k, fed.kept, fed.yielded)

_match_range_and_texts(ranges, fragments) ==
  MatchLoop(ranges, fragments, 0, 1, << >>, << >>)

\* lines 42-46: the accumulated texts cut into head, body and tail
SplitTexts(range, texts) ==
  LET head_length == range.body_index - range.head_index
      body_length == range.tail_index - range.body_index
  IN  [ head |-> PySlice(texts, 0, head_length),
        body |-> PySlice(texts, head_length, head_length + body_length),
        tail |-> PySlice(texts, head_length + body_length, Len(texts)) ]

\* lines 42-59: the Chunk built from a range and its accumulated texts
BuildChunk(target_language, range, texts) ==
  LET head == SplitTexts(range, texts).head
      body == SplitTexts(range, texts).body
      tail == SplitTexts(range, texts).tail
  IN  [ hash |-> _hash_texts_list(target_language, head, body, tail),
        head |-> _crop_extra_texts(head, TRUE, range.head_remain_tokens),
        body |-> body,
        tail |-> _crop_extra_texts(tail, FALSE, range.tail_remain_tokens),
        index |-> range.index,
        tokens_count |-> range.tokens_count ]

\* match_fragments: the chunks in the order they are yielded
match_fragments(target_language, ranges, fragments) ==
  LET pairs == _match_range_and_texts(ranges, fragments)
  IN  [ i \in 1 .. Len(pairs) |-> BuildChunk(target_language, pairs[i].range, pairs[i].texts) ]

(***************************************************************************)
(* SpecHash: two chunk ranges over one fragment stream, each matched by a  *)
(* call of match_fragments (two chunks of one run, or of two runs that     *)
(* share the cache and may differ in their budgets and target language).   *)
(***************************************************************************)
FragmentTexts == { << 65 >>, << 65, 66 >> }

Languages == { 1, 2 }

Streams == [ 1 .. MaxFrags -> FragmentTexts ]

RECURSIVE TokensOf(_)
TokensOf(texts) == IF texts = << >> THEN 0 ELSE Len(Head(texts)) + TokensOf(Tail(texts))

\* the budget of a context part: none for an empty part, at least one token
\* for a part that holds fragments
Budgets(from, to) == IF from = to THEN { 0 } ELSE 1 .. MaxRemain

\* the ranges split_into_chunks can describe over a stream: a body of at
\* least one fragment, a head right before it and a tail right after it
RangesOver(fragments) ==
  UNION { { [ index |-> 0,
              head_remain_tokens |-> hr,
              tail_remain_tokens |-> tr,
              head_index |-> h,
              body_index |-> b,
              tail_index |-> t,
              fragments_count |-> e - h,
              tokens_count |-> TokensOf(SubSeq(fragments, b + 1, t)) ] :
            hr \in Budgets(h, b), tr \in Budgets(t, e) } :
          h \in 0 .. Len(fragments), b \in 0 .. Len(fragments),
          t \in 0 .. Len(fragments), e \in 0 .. Len(fragments) }

WellFormed(range) ==
  /\ range.head_index <= range.body_index
  /\ range.body_index < range.tail_index
  /\ range.tail_index <= range.head_index + range.fragments_count

PipeIdle ==
  /\ tokens_count = [ c \in Chunks |-> 0 ]
  /\ store = None
  /\ mpc = "idle"
  /\ cursor = 0
  /\ err = "none"
  /\ fstate = [ c \in Chunks |-> "new" ]
  /\ translated_texts = [ c \in Chunks |-> None ]
  /\ result = [ c \in Chunks |-> None ]
  /\ requests = [ c \in Chunks |-> 0 ]
  /\ puts = [ c \in Chunks |-> 0 ]
  /\ hit = [ c \in Chunks |-> FALSE ]
  /\ warned = [ c \in Chunks |-> FALSE ]
  /\ delivered = {}
  /\ arrivals = << >>
  /\ buffer = << >>
  /\ wanna_next_index = 0
  /\ translated_tokens_count = 0
  /\ emitted = << >>
  /\ reported = << >>

HashInit ==
  /\ PipeIdle
  /\ hout = << >>
  /\ \E fragments \in Streams :
       \E r1 \in RangesOver(fragments), r2 \in RangesOver(fragments) :
         \E l1 \in Languages, l2 \in Languages :
           /\ WellFormed(r1)
           /\ WellFormed(r2)
           /\ hin = [ fragments |-> fragments, ranges |-> << r1, r2 >>,
                      languages |-> << l1, l2 >> ]

\* each range is matched against the stream and its chunk is built
MatchBoth ==
  /\ hout = << >>
  /\ hout' = [ i \in 1 .. 2 |->
               match_fragments(hin.languages[i], << hin.ranges[i] >>, hin.fragments) ]
  /\ UNCHANGED << hin, pipeVars >>

HashNext == MatchBoth

SpecHash == HashInit /\ [][HashNext]_vars

\* C8: two chunks with equal hashes have the same head, body and tail text
\* lists as submitted for translation.
C8_SameHashSameTexts ==
  hout # << >> =>
    \A a \in 1 .. Len(hout[1]), b \in 1 .. Len(hout[2]) :
      hout[1][a].hash = hout[2][b].hash =>
        /\ hout[1][a].head = hout[2][b].head
        /\ hout[1][a].body = hout[2][b].body
        /\ hout[1][a].tail = hout[2][b].tail

(***************************************************************************)
(* SpecCrop: _crop_extra_texts applied to a list of texts, a side and a    *)
(* token budget.                                                           *)
(***************************************************************************)
\* the texts of a context part: the empty string, one token, two tokens
CropTexts == { << >>, << 65 >>, << 65, 66 >> }

CropLists == UNION { [ 1 .. n -> CropTexts ] : n \in 0 .. MaxFrags }

CropInit ==
  /\ PipeIdle
  /\ hout = None
  /\ \E texts \in CropLists, crop_left \in BOOLEAN, remain_tokens_count \in 0 .. MaxRemain :
       hin = [ texts |-> texts, crop_left |-> crop_left,
               remain_tokens_count |-> remain_tokens_count ]

Crop ==
  /\ hout = None
  /\ hout' = Some(_crop_extra_texts(hin.texts, hin.crop_left, hin.remain_tokens_count))
  /\ UNCHANGED << hin, pipeVars >>

CropNext == Crop

SpecCrop == CropInit /\ [][CropNext]_vars

\* the source text the i-th kept text was taken from: the kept texts are the
\* last ones of the list for the head, the first ones for the tail
CropSource(texts, kept, crop_left, i) ==
  IF crop_left THEN texts[Len(texts) - Len(kept) + i] ELSE texts[i]

\* C15: for every budget B >= 0 and every list of texts, the texts kept by
\* _crop_extra_texts count at most B tokens, for the head and for the tail,
\* and at most one kept text is a partial slice of its source text.
C15_CropWithinBudget ==
  hout # None =>
    LET kept == Val(hout)
    IN  /\ TokensOf(kept) <= hin.remain_tokens_count
        /\ Len(kept) <= Len(hin.texts)
        /\ Cardinality({ i \in 1 .. Len(kept) :
                           kept[i] # CropSource(hin.texts, kept, hin.crop_left, i) }) <= 1

\* the tokens of a list of texts, one text after the other
RECURSIVE AllTokens(_)
AllTokens(texts) ==
  IF texts = << >> THEN << >> ELSE encode_tokens(Head(texts)) \o AllTokens(Tail(texts))

IsPrefix(a, b) == Len(a) <= Len(b) /\ SubSeq(b, 1, Len(a)) = a
IsSuffix(a, b) == Len(a) <= Len(b) /\ SubSeq(b, Len(b) - Len(a) + 1, Len(b)) = a

\* C21: the tokens kept by _crop_extra_texts, in output order, are a suffix
\* (head) or a prefix (tail) of the tokens of the input texts; the kept
\* texts are the last (head) or first (tail) texts of the input in their
\* order, and only the outermost kept text may be a slice: the first one
\* for the head, the last one for the tail.
C21_CropKeepsNearEnd ==
  hout # None =>
    LET kept == Val(hout)
        texts == hin.texts
        outer == IF hin.crop_left THEN 1 ELSE Len(kept)
    IN  /\ Len(kept) <= Len(texts)
        /\ IF hin.crop_left THEN IsSuffix(AllTokens(kept), AllTokens(texts))
                             ELSE IsPrefix(AllTokens(kept), AllTokens(texts))
        /\ \A i \in 1 .. Len(kept) :
             LET source == CropSource(texts, kept, hin.crop_left, i)
             IN  IF i # outer THEN kept[i] = source
                 ELSE IF hin.crop_left THEN IsSuffix(kept[i], source)
                 ELSE IsPrefix(kept[i], source)

\* C21 witness: the head was cropped to two texts, the first a proper slice
\* that keeps the end of its source text.
C21_Witness ==
  /\ hout # None
  /\ hin.crop_left
  /\ Len(Val(hout)) = 2
  /\ Len(Val(hout)[1]) = 1
  /\ Len(hin.texts[1]) = 2
  /\ Val(hout)[1] = << hin.texts[1][2] >>
  /\ Val(hout)[2] = hin.texts[2]

(***************************************************************************)
(* splitter.py: split_into_chunks.  The segmentation algorithm (split of   *)
(* resource_segmentation) is an external collaborator; its output is an    *)
(* input of the model: a sequence of groups, each with a head, a body and  *)
(* a tail part, a part being a list of resources and segments.             *)
(***************************************************************************)
\* lines 47-54: the resource of fragment number index
Resource(index) == [ kind |-> "Resource", payload |-> index, count |-> 1 + (index % 2) ]

Segment(resources) == [ kind |-> "Segment", resources |-> resources ]

\* _iter_group_part: resources are passed on, segments are flattened
RECURSIVE _iter_group_part(_)
_iter_group_part(target) ==
  IF target = << >> THEN << >>
  ELSE (IF Head(target).kind = "Resource" THEN << Head(target) >> ELSE Head(target).resources)
       \o _iter_group_part(Tail(target))

\* a loop without the assertion of line 65
RECURSIVE GroupPartLoopUnchecked(_, _, _)
GroupPartLoopUnchecked(resources, i, acc) ==
  IF i > Len(resources) THEN acc
  ELSE GroupPartLoopUnchecked(resources, i + 1,
         [ failed |-> FALSE,
           start_index |-> IF acc.start_index = None THEN Some(resources[i].payload)
                           ELSE acc.start_index,
           previous_index |-> resources[i].payload,
           tokens_count |-> acc.tokens_count + resources[i].count ])

\* lines 60-67: the loop of _group_part over the flattened resources from
\* number i on; failed is set when the assertion of line 65 fails
RECURSIVE GroupPartLoop(_, _, _)
GroupPartLoop(resources, i, acc) ==
  IF i > Len(resources) THEN acc
  ELSE LET index == resources[i].payload
       IN  IF acc.start_index # None /\ index # acc.previous_index + 1
           THEN [acc EXCEPT !.failed = TRUE]
           ELSE GroupPartLoop(resources, i + 1,
                  [ failed |-> FALSE,
                    start_index |-> IF acc.start_index = None THEN Some(index)
                                    ELSE acc.start_index,
                    previous_index |-> index,
                    tokens_count |-> acc.tokens_count + resources[i].count ])

\* a _group_part that takes the last resource for the start of the part
GroupPartFromLast(target) ==
  LET acc == GroupPartLoop(_iter_group_part(target), 1,
               [ failed |-> FALSE, start_index |-> None, previous_index |-> 0,
                 tokens_count |-> 0 ])
  IN  IF acc.failed \/ acc.start_index = None THEN [acc EXCEPT !.failed = TRUE]
      ELSE [acc EXCEPT !.start_index = Some(acc.previous_index)]

\* _group_part: (start_index, previous_index, tokens_count), or a failed
\* assertion (lines 65 and 69)
_group_part(target) ==
  LET acc == GroupPartLoop(_iter_group_part(target), 1,
               [ failed |-> FALSE, start_index |-> None, previous_index |-> 0,
                 tokens_count |-> 0 ])
  IN  IF acc.failed \/ acc.start_index = None THEN [acc EXCEPT !.failed = TRUE]
      ELSE acc

\* lines 17-45: the ChunkRange of one group, or a failed assertion
ChunkRangeOf(index, group) ==
  LET body == _group_part(group.body)
      head == _group_part(group.head)
      tail == _group_part(group.tail)
      body_index == Val(body.start_index)
      head_index == IF group.head # << >> THEN Val(head.start_index) ELSE body_index
      tail_index == IF group.tail # << >> THEN Val(tail.start_index)
                    ELSE body.previous_index + 1
      fragments_count == IF group.tail # << >> THEN tail.previous_index - head_index + 1
                         ELSE tail_index - head_index
  IN  IF body.failed THEN [ failed |-> TRUE, range |-> None ]
      ELSE IF group.head # << >> /\ (head.failed \/ head.previous_index + 1 # body_index)
        THEN [ failed |-> TRUE, range |-> None ]
      ELSE IF group.tail # << >> /\ (tail.failed \/ body.previous_index + 1 # tail_index)
        THEN [ failed |-> TRUE, range |-> None ]
      ELSE [ failed |-> FALSE,
             range |-> Some([ index |-> index,
                              head_remain_tokens |-> group.head_remain_count,
                              tail_remain_tokens |-> group.tail_remain_count,
                              head_index |-> head_index,
                              body_index |-> body_index,
                              tail_index |-> tail_index,
                              fragments_count |-> fragments_count,
                              tokens_count |-> body.tokens_count ]) ]

(***************************************************************************)
(* SpecSplit: split_into_chunks over the groups the segmentation algorithm *)
(* yields for a stream of fragments.  The bodies of the groups are cut out *)
(* of the stream one after the other; each group may carry the fragments   *)
(* right before its body as head and those right after it as tail.         *)
(***************************************************************************)
\* the part that holds the fragments from .. to-1, as a list of resources,
\* or as a resource followed by a segment of the others
Part(from, to, segmented) ==
  IF from = to THEN << >>
  ELSE IF ~segmented \/ to - from = 1 THEN [ i \in 1 .. to - from |-> Resource(from + i - 1) ]
  ELSE << Resource(from), Segment([ i \in 1 .. to - from - 1 |-> Resource(from + i) ]) >>

Group(h, b, t, e, segmented) ==
  [ head |-> Part(h, b, segmented),
    body |-> Part(b, t, segmented),
    tail |-> Part(t, e, segmented),
    head_remain_count |-> IF h = b THEN 0 ELSE 1,
    tail_remain_count |-> IF t = e THEN 0 ELSE 1 ]

\* the group sequences whose bodies cut the fragments b .. n-1 into
\* consecutive pieces
RECURSIVE GroupsFrom(_, _, _)
GroupsFrom(b, n, segmented) ==
  IF b = n THEN { << >> }
  ELSE UNION { UNION { { << Group(h, b, t, e, segmented) >> \o rest :
                           rest \in GroupsFrom(t, n, segmented) } :
                       h \in 0 .. b, e \in t .. n } :
               t \in (b + 1) .. n }

SplitInit ==
  /\ PipeIdle
  /\ hout = [ ranges |-> << >>, failed |-> FALSE ]
  /\ \E n \in 1 .. (MaxFrags + 1), segmented \in BOOLEAN :
       \E groups \in GroupsFrom(0, n, segmented) :
         hin = [ fragments_count |-> n, groups |-> groups ]

\* lines 10-45: the next group is taken from the segmentation and its
\* ChunkRange is yielded, unless an assertion fails
YieldRange ==
  /\ ~hout.failed
  /\ Len(hout.ranges) < Len(hin.groups)
  /\ LET index == Len(hout.ranges)
         made == ChunkRangeOf(index, hin.groups[index + 1])
     IN  hout' = IF made.failed THEN [hout EXCEPT !.failed = TRUE]
                 ELSE [hout EXCEPT !.ranges = Append(@, Val(made.range))]
  /\ UNCHANGED << hin, pipeVars >>

SplitNext == YieldRange

SpecSplit == SplitInit /\ [][SplitNext]_vars

\* C16: the body windows [body_index, tail_index) of the chunk ranges
\* split_into_chunks yields follow one another from fragment 0 on without
\* gap or overlap, none is empty, they cover every fragment once the last
\* group is done, and the index values are 0, 1, 2, ...
C16_BodiesPartition ==
  LET ranges == hout.ranges
  IN  /\ ~hout.failed
      /\ \A k \in 1 .. Len(ranges) :
           /\ ranges[k].index = k - 1
           /\ ranges[k].body_index = (IF k = 1 THEN 0 ELSE ranges[k - 1].tail_index)
           /\ ranges[k].body_index < ranges[k].tail_index
           /\ ranges[k].tail_index <= hin.fragments_count
      /\ (Len(ranges) = Len(hin.groups) /\ Len(ranges) > 0) =>
           ranges[Len(ranges)].tail_index = hin.fragments_count

\* C16 witness: two ranges were yielded for three fragments; the first has a
\* body of two fragments that came as a resource and a segment, and a tail;
\* the second has a head.
C16_Witness ==
  /\ Len(hout.ranges) = 2
  /\ Len(hin.groups) = 2
  /\ hout.ranges[1].tail_index - hout.ranges[1].body_index = 2
  /\ hout.ranges[1].tail_index <
       hout.ranges[1].head_index + hout.ranges[1].fragments_count
  /\ hout.ranges[2].head_index < hout.ranges[2].body_index
  /\ hout.ranges[2].tail_index = hin.fragments_count
  /\ \E i \in 1 .. Len(hin.groups[1].body) : hin.groups[1].body[i].kind = "Segment"

(***************************************************************************)
(* SpecSplitBroken: split_into_chunks over a segmentation that breaks its  *)
(* contract in one group: a part with a repeated index, or a head or tail  *)
(* that does not meet the body.                                            *)
(***************************************************************************)
\* the fragment indices from .. to-1
Indices(from, to) == [ i \in 1 .. to - from |-> from + i - 1 ]

\* the index lists of the groups whose bodies cut the fragments b .. n-1
\* into consecutive pieces
RECURSIVE IndexListsFrom(_, _)
IndexListsFrom(b, n) ==
  IF b = n THEN { << >> }
  ELSE UNION { UNION { { << [ head |-> Indices(h, b), body |-> Indices(b, t),
                              tail |-> Indices(t, e) ] >> \o rest :
                           rest \in IndexListsFrom(t, n) } :
                       h \in 0 .. b, e \in t .. n } :
               t \in (b + 1) .. n }

BreakKinds == { "none", "head_apart", "head_repeat", "body_repeat", "tail_apart", "tail_repeat" }

\* the index lists of a group after the break
Broken(g, kind) ==
  LET b == g.body[1]
      t == g.body[Len(g.body)] + 1
  IN  CASE kind = "head_apart"  -> [g EXCEPT !.head = << b + 1 >>]
        [] kind = "head_repeat" -> IF b = 0 THEN g ELSE [g EXCEPT !.head = << b - 1, b - 1 >>]
        [] kind = "body_repeat" -> [g EXCEPT !.body = << b >> \o g.body]
        [] kind = "tail_apart"  -> [g EXCEPT !.tail = << t + 1 >>]
        [] kind = "tail_repeat" -> [g EXCEPT !.tail = << t, t >>]
        [] OTHER                -> g

\* a part given by its index list: resources, or a resource followed by a
\* segment of the others
PartOf(indices, segmented) ==
  IF ~segmented \/ Len(indices) < 2 THEN [ i \in 1 .. Len(indices) |-> Resource(indices[i]) ]
  ELSE << Resource(indices[1]),
          Segment([ i \in 1 .. Len(indices) - 1 |-> Resource(indices[i + 1]) ]) >>

GroupOf(g, segmented) ==
  [ head |-> PartOf(g.head, segmented),
    body |-> PartOf(g.body, segmented),
    tail |-> PartOf(g.tail, segmented),
    head_remain_count |-> IF g.head = << >> THEN 0 ELSE 1,
    tail_remain_count |-> IF g.tail = << >> THEN 0 ELSE 1 ]

BrokenInit ==
  /\ PipeIdle
  /\ hout = [ ranges |-> << >>, failed |-> FALSE ]
  /\ \E segmented \in BOOLEAN, kind \in BreakKinds :
       \E lists \in IndexListsFrom(0, MaxFrags + 1) :
         \E k \in 1 .. Len(lists) :
           LET broken == [lists EXCEPT ![k] = Broken(lists[k], kind)]
           IN  hin = [ fragments_count |-> MaxFrags + 1,
                       lists |-> broken,
                       groups |-> [ i \in 1 .. Len(broken) |-> GroupOf(broken[i], segmented) ] ]

SpecSplitBroken == BrokenInit /\ [][SplitNext]_vars

Consecutive(indices) == \A i \in 1 .. Len(indices) - 1 : indices[i + 1] = indices[i] + 1

\* the group breaks the contract: a part is not a run of consecutive
\* indices, the head does not end where the body begins, or the body does
\* not end where the tail begins
Malformed(g) ==
  \/ ~Consecutive(g.head) \/ ~Consecutive(g.body) \/ ~Consecutive(g.tail)
  \/ g.head # << >> /\ g.head[Len(g.head)] + 1 # g.body[1]
  \/ g.tail # << >> /\ g.body[Len(g.body)] + 1 # g.tail[1]

\* C22: a group that breaks the contract makes split_into_chunks fail at the
\* step that takes it: no ChunkRange is yielded for it nor for a later group.
C22_BrokenGroupFails ==
  [][\A k \in 1 .. Len(hin.lists) :
       Malformed(hin.lists[k]) =>
         /\ Len(hout'.ranges) < k
         /\ Len(hout.ranges) = k - 1 => hout'.failed]_vars

\* C22 witness: the first group was well formed and its range was yielded;
\* the second, whose head does not meet its body, failed the assertion, and
\* a third group was never taken.
C22_Witness ==
  /\ Len(hin.lists) = 3
  /\ ~Malformed(hin.lists[1])
  /\ Malformed(hin.lists[2])
  /\ Consecutive(hin.lists[2].head) /\ hin.lists[2].head # << >>
  /\ hout.failed
  /\ Len(hout.ranges) = 1

(***************************************************************************)
(* SpecMatch: match_fragments over a fragment stream and a list of chunk   *)
(* ranges in ascending head_index order whose windows lie in the stream    *)
(* and may overlap.                                                        *)
(***************************************************************************)
\* the text of fragment number index of the stream: one or two tokens that
\* tell the position
FragmentText(index) ==
  IF index % 2 = 0 THEN << 65 + index >> ELSE << 65 + index, 65 + index >>

StreamOf(n) == [ i \in 1 .. n |-> FragmentText(i - 1) ]

\* the windows head_index <= body_index < tail_index <= end over n fragments
Windows(n) ==
  { w \in [ h : 0 .. n, b : 0 .. n, t : 0 .. n, e : 0 .. n ] :
      w.h <= w.b /\ w.b < w.t /\ w.t <= w.e }

RangeOfWindow(index, w, fragments) ==
  [ index |-> index,
    head_remain_tokens |-> IF w.h = w.b THEN 0 ELSE 1,
    tail_remain_tokens |-> IF w.t = w.e THEN 0 ELSE 1,
    head_index |-> w.h,
    body_index |-> w.b,
    tail_index |-> w.t,
    fragments_count |-> w.e - w.h,
    tokens_count |-> TokensOf(SubSeq(fragments, w.b + 1, w.t)) ]

\* the lists of up to MaxFrags windows in ascending head_index order
WindowLists(n) ==
  UNION { { ws \in [ 1 .. k -> Windows(n) ] :
              \A i \in 1 .. k - 1 : ws[i].h <= ws[i + 1].h } :
          k \in 1 .. MaxFrags }

MatchInit ==
  /\ PipeIdle
  /\ hout = None
  /\ \E ws \in WindowLists(MaxFrags + 1), language \in Languages :
       LET fragments == StreamOf(MaxFrags + 1)
       IN  hin = [ fragments |-> fragments,
                   ranges |-> [ i \in 1 .. Len(ws) |-> RangeOfWindow(i - 1, ws[i], fragments) ],
                   language |-> language ]

\* match_fragments runs over the stream; pairs are the ranges with their
\* accumulated texts in the order _match_range_and_texts yields them
MatchAll ==
  /\ hout = None
  /\ hout' = Some([ pairs |-> _match_range_and_texts(hin.ranges, hin.fragments),
                    chunks |-> match_fragments(hin.language, hin.ranges, hin.fragments) ])
  /\ UNCHANGED << hin, pipeVars >>

MatchNext == MatchAll

SpecMatch == MatchInit /\ [][MatchNext]_vars

\* the fragment texts at the stream positions from .. to-1
StreamSlice(fragments, from, to) == [ i \in 1 .. to - from |-> fragments[from + i] ]

\* C20: match_fragments yields exactly one Chunk per range; before cropping
\* its head, body and tail are the fragment texts at the stream positions
\* [head_index, body_index), [body_index, tail_index) and
\* [tail_index, head_index + fragments_count), also when windows overlap.
C20_OneChunkPerRange ==
  hout # None =>
    LET pairs == Val(hout).pairs
        chunks == Val(hout).chunks
    IN  /\ Len(pairs) = Len(hin.ranges)
        /\ Len(chunks) = Len(hin.ranges)
        /\ \A k \in 1 .. Len(hin.ranges) :
             LET range == hin.ranges[k]
                 head == StreamSlice(hin.fragments, range.head_index, range.body_index)
                 body == StreamSlice(hin.fragments, range.body_index, range.tail_index)
                 tail == StreamSlice(hin.fragments, range.tail_index,
                                     range.head_index + range.fragments_count)
             IN  /\ Cardinality({ i \in 1 .. Len(pairs) : pairs[i].range = range }) = 1
                 /\ \A i \in 1 .. Len(pairs) :
                      pairs[i].range = range =>
                        /\ SplitTexts(range, pairs[i].texts) =
                             [ head |-> head, body |-> body, tail |-> tail ]
                        /\ chunks[i].index = range.index
                        /\ chunks[i].body = body
                        /\ chunks[i].hash = _hash_texts_list(hin.language, head, body, tail)

\* C20 witness: two ranges whose windows overlap were matched, the second
\* starting at the first one's head and ending before it, so that it was
\* yielded first; both have a head and the first has a tail.
C20_Witness ==
  /\ hout # None
  /\ Len(hin.ranges) = 2
  /\ hin.ranges[1].head_index = hin.ranges[2].head_index
  /\ hin.ranges[2].fragments_count < hin.ranges[1].fragments_count
  /\ \A k \in 1 .. 2 : hin.ranges[k].head_index < hin.ranges[k].body_index
  /\ hin.ranges[1].tail_index < hin.ranges[1].head_index + hin.ranges[1].fragments_count
  /\ Len(Val(hout).chunks) = 2
  /\ Val(hout).chunks[1].index = 1
  /\ Val(hout).chunks[2].index = 0

(***************************************************************************)
(* SpecParse: _parse_translated_response applied to a parsed reply.  A     *)
(* child element has an id attribute or none, and a text or none; the ids  *)
(* are decimal numbers, in range or not.                                   *)
(***************************************************************************)
\* the texts of a child: a translation with blanks around it, one without,
\* and a text of blanks only
ChildTexts == { << Space, 70, Space >>, << 71 >>, << Space >> }

Children(sources_count) ==
  [ id : { None } \cup { Some(k) : k \in 0 .. sources_count + 1 },
    text : { None } \cup { Some(t) : t \in ChildTexts } ]

Replies(sources_count) ==
  UNION { [ 1 .. n -> Children(sources_count) ] : n \in 0 .. MaxFrags }

ParseInit ==
  /\ PipeIdle
  /\ hout = None
  /\ \E sources_count \in 0 .. MaxFrags :
       \E resp_element \in Replies(sources_count) :
         hin = [ resp_element |-> resp_element, sources_count |-> sources_count ]

Parse ==
  /\ hout = None
  /\ hout' = Some(_parse_translated_response(hin.resp_element, hin.sources_count))
  /\ UNCHANGED << hin, pipeVars >>

ParseNext == Parse

SpecParse == ParseInit /\ [][ParseNext]_vars

\* the children that carry id p and a text
Carrying(resp_element, p) ==
  { i \in 1 .. Len(resp_element) :
      resp_element[i].id = Some(p) /\ resp_element[i].text # None }

Last(S) == CHOOSE i \in S : \A j \in S : j <= i

C24_OutOfRangeIdRaises ==
  hout # None =>
    ((\E i \in 1 .. Len(hin.resp_element) :
        /\ hin.resp_element[i].id # None
        /\ Val(hin.resp_element[i].id) \notin 1 .. hin.sources_count)
     => Val(hout).raised)

(***************************************************************************)
(* SpecNormalize: _normalize_user_input applied to a list of lines.  The   *)
(* result is the list of lines that "\n".join puts together, or None.      *)
(***************************************************************************)
\* utils.is_empty: the line holds nothing but blanks
is_empty(line) == Strip(line) = EmptyText

\* lines 220-230: the loop over the lines from line i on
RECURSIVE NormalizeLoop(_, _, _, _)
NormalizeLoop(user_lines, i, empty_lines_count, lines) ==
  IF i > Len(user_lines) THEN lines
  ELSE IF is_empty(user_lines[i])
    THEN NormalizeLoop(user_lines, i + 1, empty_lines_count + 1, lines)
  ELSE LET separated ==
             IF lines = << >> THEN lines
             ELSE IF empty_lines_count >= 2 THEN lines \o << EmptyText, EmptyText >>
             ELSE IF empty_lines_count = 1 THEN Append(lines, EmptyText)
             ELSE lines
       IN  NormalizeLoop(user_lines, i + 1, empty_lines_count,
                         Append(separated, clean_spaces(user_lines[i])))

\* _normalize_user_input
_normalize_user_input(user_lines) ==
  LET lines == NormalizeLoop(user_lines, 1, 0, << >>)
  IN  IF lines = << >> THEN None ELSE Some(lines)

\* a line of blanks only, the empty line, and two lines with content
UserLines == { EmptyText, << Space >>, << 65 >>, << Space, 66 >> }

NormalizeInit ==
  /\ PipeIdle
  /\ hout = << >>
  /\ \E n \in 0 .. MaxFrags + 2 : \E user_lines \in [ 1 .. n -> UserLines ] :
       hin = [ user_lines |-> user_lines ]

Normalize ==
  /\ hout = << >>
  /\ hout' = << _normalize_user_input(hin.user_lines) >>
  /\ UNCHANGED << hin, pipeVars >>

NormalizeNext == Normalize

SpecNormalize == NormalizeInit /\ [][NormalizeNext]_vars

\* the blank lines the input has right before line i
RECURSIVE BlanksBefore(_, _)
BlanksBefore(user_lines, i) ==
  IF i = 1 \/ ~is_empty(user_lines[i - 1]) THEN 0
  ELSE 1 + BlanksBefore(user_lines, i - 1)

\* the lines the input as far as line i shall give: every line with content,
\* cleaned, after no, one or two empty lines as the input has none, one, or
\* two and more blank lines between it and the line with content before it
RECURSIVE Paragraphs(_, _)
Paragraphs(user_lines, i) ==
  IF i = 0 THEN << >>
  ELSE LET before == Paragraphs(user_lines, i - 1)
           blanks == BlanksBefore(user_lines, i)
       IN  IF is_empty(user_lines[i]) THEN before
           ELSE (IF before = << >> \/ blanks = 0 THEN before
                 ELSE IF blanks = 1 THEN Append(before, EmptyText)
                 ELSE before \o << EmptyText, EmptyText >>)
                \o << clean_spaces(user_lines[i]) >>

\* C25: between two consecutive lines with content the output has no blank
\* line when the input has none between them, one when it has one, two when
\* it has two or more; blank lines before the first and after the last line
\* with content are dropped.
C25_BlankRunsPreserved ==
  hout # << >> =>
    LET expected == Paragraphs(hin.user_lines, Len(hin.user_lines))
    IN  hout[1] = (IF expected = << >> THEN None ELSE Some(expected))

(***************************************************************************)
(* SpecSpine: translator.py, _translate_spine.  The spine is a list of     *)
(* files; a file passes the name filter or not and holds texts_length      *)
(* texts.  The translated stream holds one text for every text that        *)
(* _gen_fragments read, unless translate() raises on the way.              *)
(***************************************************************************)
SpineFiles == [ passes : BOOLEAN, texts_length : 0 .. MaxRemain ]

Spines == [ 1 .. MaxFrags + 1 -> SpineFiles ]

\* lines 174-184: _gen_fragments reads the texts of the files that pass the
\* filter; the number of fragments of the first n files
RECURSIVE FragmentsOf(_, _)
FragmentsOf(files, n) ==
  IF n = 0 THEN 0
  ELSE FragmentsOf(files, n - 1)
       + (IF files[n].passes THEN files[n].texts_length ELSE 0)

\* the translated text of fragment number k of the stream (k counts from 1)
TranslatedText(k) == << 100 + k >>

SpineInit ==
  /\ PipeIdle
  /\ \E files \in Spines :
       hin = [ files |-> files,
               stream |-> [ k \in 1 .. FragmentsOf(files, Len(files)) |-> TranslatedText(k) ] ]
  /\ hout = [ pc |-> "loop", iter |-> 1, spine |-> None, translated_texts |-> << >>,
               translated_count |-> 0, consumed |-> 0, writes |-> << >> ]

\* a test that holds as soon as the file has received a text
SpineTouched(count, texts) == count > 0

\* line 142: translated_count >= len(translated_texts)
SpineFull(count, texts) == count >= Len(texts)

\* lines 148-160: the next spine file from position pos on that passes the
\* filter and holds a text; 0 when the iterator is exhausted
RECURSIVE NextSpine(_, _)
NextSpine(files, pos) ==
  IF pos > Len(files) THEN 0
  ELSE IF files[pos].passes /\ files[pos].texts_length # 0 THEN pos
  ELSE NextSpine(files, pos + 1)

\* lines 143-146 and 169-171: write_texts and write_spine_file
WriteSpine(st) ==
  [st EXCEPT !.writes = Append(@, [ file |-> Val(st.spine), texts |-> st.translated_texts,
                                    consumed |-> st.consumed ]),
             !.spine = None]

\* lines 129-165: one round of the loop, for the next text of the stream
TakeText ==
  /\ hout.pc = "loop"
  /\ hout.consumed < Len(hin.stream)
  /\ LET translated_text == hin.stream[hout.consumed + 1]
         taken == [hout EXCEPT !.consumed = @ + 1]
         flushed == IF taken.spine # None
                       /\ SpineFull(taken.translated_count, taken.translated_texts)
                    THEN WriteSpine(taken) ELSE taken
         found == NextSpine(hin.files, flushed.iter)
         did_touch_end == flushed.spine = None /\ found = 0
         opened == IF flushed.spine # None THEN flushed
                   ELSE IF found = 0 THEN [flushed EXCEPT !.iter = Len(hin.files) + 1]
                   ELSE [flushed EXCEPT !.iter = found + 1,
                                        !.spine = Some(found),
                                        !.translated_texts =
                                            [ k \in 1 .. hin.files[found].texts_length |-> EmptyText ],
                                        !.translated_count = 0]
     IN  hout' = IF opened.translated_count >= Len(opened.translated_texts)
                 THEN \* list assignment index out of range
                      [opened EXCEPT !.pc = "raised"]
                 ELSE [opened EXCEPT
                         !.translated_texts[opened.translated_count + 1] = translated_text,
                         !.translated_count = @ + 1,
                         !.pc = IF did_touch_end THEN "done" ELSE "loop"]
  /\ UNCHANGED << hin, pipeVars >>

\* lines 129 and 167-172: the stream has ended; the file in hand is written
StreamEnds ==
  /\ hout.pc = "loop"
  /\ hout.consumed = Len(hin.stream)
  /\ hout' = [ (IF hout.spine # None THEN WriteSpine(hout) ELSE hout) EXCEPT !.pc = "done" ]
  /\ UNCHANGED << hin, pipeVars >>

\* line 129: translate() raises instead of yielding the next text
StreamRaises ==
  /\ hout.pc = "loop"
  /\ hout.consumed < Len(hin.stream)
  /\ hout' = [hout EXCEPT !.pc = "raised"]
  /\ UNCHANGED << hin, pipeVars >>

SpineNext == TakeText \/ StreamEnds \/ StreamRaises

SpecSpine == SpineInit /\ [][SpineNext]_vars

\* the spine files that pass the filter and hold a text, in spine order
RECURSIVE Receivers(_, _)
Receivers(files, n) ==
  IF n = 0 THEN << >>
  ELSE IF files[n].passes /\ files[n].texts_length # 0
    THEN Append(Receivers(files, n - 1), n)
  ELSE Receivers(files, n - 1)

C28_TotalIsPositive ==
  Len(arrivals) > 0 => (total_tokens_count > 0 /\ err # "ZeroDivisionError")

====
